---- MODULE Spec2Model ----
(***************************************************************************)
(* conda-inject: inject_env / inject_packages, the InjectedEnvironment     *)
(* handle (remove, deactivate, scoped use) and the two process-global      *)
(* search paths it edits, os.environ["PATH"] and sys.path.                 *)
(*                                                                         *)
(* Strings are sequences of symbols.  A package spec is a sequence of      *)
(* characters; PATH is a sequence of symbols in which ":" is os.pathsep.   *)
(***************************************************************************)
EXTENDS Integers, Sequences, FiniteSets, TLC

\* Number of handles: of inject_env / inject_packages calls that return one.
MaxCalls == 2

Calls == 1..MaxCalls

\* with_constraints: None, or a list of package specs.
None == [is_none |-> TRUE, items |-> <<>>]

List(items) == [is_none |-> FALSE, items |-> items]

Range(s) == {s[i] : i \in 1..Len(s)}

Min(S) == CHOOSE x \in S : \A y \in S : x <= y

(***************************************************************************)
(* Text                                                                    *)
(***************************************************************************)
python == <<"p", "y", "t", "h", "o", "n">>

\* The characters the package group of package_spec_pattern excludes:
\* [^=><\s]
Delims == {"=", ">", "<", " "}

\* Length of the match of (?P<package>[^=><\s]+) at the start of s: the
\* group is greedy and what follows it is optional, so it takes the longest
\* run of non-delimiters.
package_len(s) ==
    LET bad == {i \in 1..Len(s) : s[i] \in Delims}
    IN  IF bad = {} THEN Len(s) ELSE Min(bad) - 1

\* package_spec_pattern.match(s) is not None
package_spec_pattern_match(s) == package_len(s) > 0

\* m.group("package")
package_group(s) == SubSeq(s, 1, package_len(s))

\* The places of s, from place i on, where old occurs.
occurrences(s, old, i) ==
    {j \in i..(Len(s) - Len(old) + 1) : SubSeq(s, j, j + Len(old) - 1) = old}

\* s[i..] with its occurrences of old taken out, left to right, each
\* search going on behind the occurrence before it.
RECURSIVE replace_from(_, _, _)
replace_from(s, old, i) ==
    IF occurrences(s, old, i) = {} THEN SubSeq(s, i, Len(s))
    ELSE LET j == Min(occurrences(s, old, i))
         IN  SubSeq(s, i, j - 1) \o replace_from(s, old, j + Len(old))

\* str.replace(old, ""): the non-overlapping occurrences, left to right.
replace(s, old) == IF old = <<>> THEN s ELSE replace_from(s, old, 1)

\* list.remove(x) inside try/except ValueError: the first occurrence goes,
\* an absent x changes nothing.
list_remove(l, x) ==
    LET at == {i \in 1..Len(l) : l[i] = x}
    IN  IF at = {} THEN l
        ELSE SubSeq(l, 1, Min(at) - 1) \o SubSeq(l, Min(at) + 1, Len(l))

\* json.dumps of a list of strings, default separators.
RECURSIVE dumps_list(_)
dumps_list(l) ==
    IF l = <<>> THEN <<>>
    ELSE <<"\"">> \o l[1] \o <<"\"">>
         \o (IF Len(l) > 1 THEN <<", ">> ELSE <<>>) \o dumps_list(Tail(l))

\* json.dumps(env): the keys in the dict's own (insertion) order, no
\* sort_keys.
RECURSIVE dumps_items(_, _)
dumps_items(keys, env) ==
    IF keys = <<>> THEN <<>>
    ELSE <<"\"", keys[1], "\"", ": ", "[">> \o dumps_list(env[keys[1]]) \o <<"]">>
         \o (IF Len(keys) > 1 THEN <<", ">> ELSE <<>>)
         \o dumps_items(Tail(keys), env)

json_dumps(env) == <<"{">> \o dumps_items(env.keys, env) \o <<"}">>

\* hashlib.sha256(...).hexdigest(): collision free, so the digest stands
\* for the text that was hashed.
sha256_hexdigest(text) == text

(***************************************************************************)
(* Validation and naming                                                   *)
(***************************************************************************)
\* _check_packages returns normally (it raises ValueError otherwise).
_check_packages(packages, invalid_packages) ==
    \A i \in 1..Len(packages) :
        /\ package_spec_pattern_match(packages[i])
        /\ package_group(packages[i]) \notin invalid_packages

\* _get_invalid_packages without lines 232-236: the packages of the
\* constraints are not added.
_get_invalid_packages_python_only(constraints) ==
    IF constraints.is_none
    THEN [raised |-> FALSE, value |-> {python}]
    ELSE [raised |-> ~_check_packages(constraints.items, {python}),
          value |-> {python}]

\* _get_invalid_packages: [raised, value]
_get_invalid_packages(constraints) ==
    IF constraints.is_none
    THEN [raised |-> FALSE, value |-> {python}]
    ELSE IF ~_check_packages(constraints.items, {python})
         THEN [raised |-> TRUE, value |-> {}]
         ELSE [raised |-> FALSE,
               value |-> {python} \cup
                   {package_group(constraints.items[i]) :
                        i \in 1..Len(constraints.items)}]

\* _check_env returns normally.
_check_env(env, invalid_packages) ==
    /\ "channels" \in Range(env.keys)
    /\ "dependencies" \in Range(env.keys)
    /\ _check_packages(env.dependencies, invalid_packages)

\* f"python =={sys.version_info.major}.{sys.version_info.minor}"
python_package == python \o <<" ", "=", "=", "X.Y">>

\* The dependencies list after _insert_constraints.
_insert_constraints(dependencies, constraints) ==
    dependencies \o <<python_package>>
                 \o (IF constraints.is_none THEN <<>> ELSE constraints.items)

_get_env_name(env) == <<"conda-inject-">> \o sha256_hexdigest(json_dumps(env)) \o <<"_">>

(***************************************************************************)
(* The package manager's environments                                      *)
(***************************************************************************)
\* The path under which the manager creates the environment of a name.
env_path(name) == <<"/envs/">> \o name

\* Environment.name: os.path.basename(self.path)
Environment_name(path) == Tail(path)

\* _get_envs: the names of the listing (each maps to its Environment).
_get_envs(listing) == {Environment_name(p) : p \in listing}

(***************************************************************************)
(* State                                                                   *)
(***************************************************************************)
VARIABLES
    pc,        \* where each inject_env call stands; "done": its handle exists
    arg,       \* the arguments each call was given
    lists,     \* the dependencies list objects of the callers, by reference
    env_name,  \* inject_env's env_name, then InjectedEnvironment.name
    self_env,  \* InjectedEnvironment.env: the path of the Environment
    cmds,      \* the manager commands each call has run, in order
    listing,   \* the paths the manager's "env list" reports
    PATH,      \* os.environ["PATH"]
    sys_path,  \* sys.path
    scope,     \* whether the handle's with block is open
    hist,      \* the operation run last, its handle, the commands it ran
    snap       \* PATH and sys.path before the _inject_path that ran last or
               \* last but one

vars == <<pc, arg, lists, env_name, self_env, cmds, listing, PATH, sys_path,
          scope, hist, snap>>

InFlight == {"get_envs", "create", "post_init"}

Raised == {"ValueError", "CalledProcessError", "KeyError"}

\* No call is between its entry and its return: the single thread of the
\* program is in the caller's code.
Quiet == \A c \in Calls : pc[c] \notin InFlight

\* Call c is the next one of a single thread: the calls before it returned
\* their handles.
Turn(c) == Quiet /\ \A d \in 1..(c - 1) : pc[d] = "done"

Allocated(r) == pc[r] # "idle" /\ arg[r].ref = r

NoArg == [via |-> "", keys |-> <<>>, ref |-> 0, entry |-> <<>>,
          constraints |-> None]

NoSnap == [PATH |-> <<>>, sys_path |-> <<>>]

\* channels: ["conda-forge"]
conda_forge == << <<"conda-forge">> >>

usr_bin == <<"/usr/bin">>

site_packages == <<"/usr/lib/pythonX.Y/site-packages">>

\* InjectedEnvironment._get_path_injection
_get_path_injection(h) == <<":">> \o self_env[h] \o <<"/bin">>

\* InjectedEnvironment._get_syspath_injection
_get_syspath_injection(h) == self_env[h] \o <<"/lib/pythonX.Y/site-packages">>

(***************************************************************************)
(* The inputs                                                              *)
(***************************************************************************)
humanfriendly == <<"h", "f", " ", "=", "1">>

requests == <<"r", "q", " ", "=", "2">>

KeysInOrder == <<"channels", "dependencies">>

\* The environment that the process which started this one created and
\* injected: this process inherits its PATH.
EarlierEnv ==
    env_path(_get_env_name([keys |-> KeysInOrder, channels |-> conda_forge,
        dependencies |-> _insert_constraints(<<humanfriendly>>, None)]))

Init ==
    /\ pc = [c \in Calls |-> "idle"]
    /\ arg = [c \in Calls |-> NoArg]
    /\ lists = [c \in Calls |-> <<>>]
    /\ env_name = [c \in Calls |-> <<>>]
    /\ self_env = [c \in Calls |-> <<>>]
    /\ cmds = [c \in Calls |-> <<>>]
    /\ \/ listing = {} /\ PATH = usr_bin
       \/ listing = {EarlierEnv}
          /\ PATH = usr_bin \o <<":">> \o EarlierEnv \o <<"/bin">>
    /\ sys_path = <<site_packages>>
    /\ scope = [c \in Calls |-> FALSE]
    /\ hist = [op |-> "", h |-> 0, ran |-> <<>>, raised |-> FALSE]
    /\ snap = NoSnap

(***************************************************************************)
(* inject_env                                                              *)
(***************************************************************************)
\* inject_env with line 127 moved to the top: the environments are listed
\* before the checks.
inject_env_check_listing_first(c, via, keys, ref, deps, constraints) ==
    LET invalid == _get_invalid_packages(constraints)
        env0 == [keys |-> keys, channels |-> conda_forge, dependencies |-> deps]
        env1 == [env0 EXCEPT !.dependencies = _insert_constraints(deps, constraints)]
        valid == ~invalid.raised /\ _check_env(env0, invalid.value)
        kept == IF ref = c THEN lists ELSE [lists EXCEPT ![c] = <<>>]
    IN  /\ pc[c] \in {"idle"} \cup Raised
        /\ arg' = [arg EXCEPT ![c] = [via |-> via, keys |-> keys, ref |-> ref,
                                      entry |-> deps, constraints |-> constraints]]
        /\ lists' = [kept EXCEPT ![ref] = IF valid THEN env1.dependencies ELSE deps]
        /\ env_name' = [env_name EXCEPT ![c] = IF valid THEN _get_env_name(env1)
                                               ELSE <<>>]
        /\ pc' = [pc EXCEPT ![c] =
                     IF ~valid THEN "ValueError"
                     ELSE IF env_name'[c] \notin _get_envs(listing) THEN "create"
                     ELSE "post_init"]
        /\ cmds' = [cmds EXCEPT ![c] = <<"list">>]
        /\ hist' = [op |-> "inject_env", h |-> c, ran |-> <<"list">>,
                    raised |-> ~valid]
        /\ snap' = NoSnap
        /\ UNCHANGED <<self_env, listing, PATH, sys_path, scope>>

\* inject_env up to env_name (lines 122-125) on the dict (keys, channels,
\* the list behind ref): the checks, then _insert_constraints on the
\* caller's own list and _get_env_name.  deps is the list's content at
\* entry.  The call takes the place of one that raised: nothing of that
\* call is left but the caller's list.
inject_env_check(c, via, keys, ref, deps, constraints) ==
    LET invalid == _get_invalid_packages(constraints)
        env0 == [keys |-> keys, channels |-> conda_forge, dependencies |-> deps]
        env1 == [env0 EXCEPT !.dependencies = _insert_constraints(deps, constraints)]
        valid == ~invalid.raised /\ _check_env(env0, invalid.value)
        kept == IF ref = c THEN lists ELSE [lists EXCEPT ![c] = <<>>]
    IN  /\ pc[c] \in {"idle"} \cup Raised
        /\ arg' = [arg EXCEPT ![c] = [via |-> via, keys |-> keys, ref |-> ref,
                                      entry |-> deps, constraints |-> constraints]]
        /\ lists' = [kept EXCEPT ![ref] = IF valid THEN env1.dependencies ELSE deps]
        /\ env_name' = [env_name EXCEPT ![c] = IF valid THEN _get_env_name(env1)
                                               ELSE <<>>]
        /\ pc' = [pc EXCEPT ![c] = IF valid THEN "get_envs" ELSE "ValueError"]
        /\ cmds' = [cmds EXCEPT ![c] = <<>>]
        /\ hist' = [op |-> "inject_env", h |-> c, ran |-> <<>>,
                    raised |-> ~valid]
        /\ snap' = NoSnap
        /\ UNCHANGED <<self_env, listing, PATH, sys_path, scope>>

\* inject_env(env, with_constraints) with a dict the caller builds (a new
\* list) or with the dict of an earlier inject_env call.
inject_env(c, Keys, Deps, Constraints) ==
    \E constraints \in Constraints :
        \/ \E keys \in Keys, deps \in Deps :
               inject_env_check(c, "inject_env", keys, c, deps, constraints)
        \/ \E r \in Calls :
               /\ Allocated(r) /\ arg[r].via = "inject_env"
               /\ inject_env_check(c, "inject_env", arg[r].keys, r, lists[r],
                                   constraints)

\* inject_packages(channels, packages, with_constraints): a new dict, its
\* keys in the order of lines 100-103, around the caller's packages list (a
\* new one, or the one an earlier inject_packages call was given).
inject_packages(c, Deps, Constraints) ==
    \E constraints \in Constraints :
        \/ \E deps \in Deps :
               inject_env_check(c, "inject_packages", KeysInOrder, c, deps,
                                constraints)
        \/ \E r \in Calls :
               /\ Allocated(r) /\ arg[r].via = "inject_packages"
               /\ inject_env_check(c, "inject_packages", KeysInOrder, r,
                                   lists[r], constraints)

\* Line 127 without the test of line 129: the create command always runs.
inject_env_get_envs_always_create(c, exit) ==
    /\ pc[c] = "get_envs"
    /\ cmds' = [cmds EXCEPT ![c] = Append(@, "list")]
    /\ pc' = [pc EXCEPT ![c] = IF exit # 0 THEN "CalledProcessError"
                               ELSE "create"]
    /\ hist' = [op |-> "get_envs", h |-> c, ran |-> <<"list">>,
                raised |-> exit # 0]
    /\ snap' = NoSnap
    /\ UNCHANGED <<arg, lists, env_name, self_env, listing, PATH, sys_path,
                   scope>>

\* Line 127 behind a lock that a caller holds from its listing to the end
\* of its create command: the listing waits while another caller stands
\* before the create command of the same name.
inject_env_get_envs_locked(c, exit) ==
    /\ pc[c] = "get_envs"
    /\ \A d \in Calls \ {c} :
           ~(pc[d] = "create" /\ env_name[d] = env_name[c])
    /\ cmds' = [cmds EXCEPT ![c] = Append(@, "list")]
    /\ pc' = [pc EXCEPT ![c] =
                 IF exit # 0 THEN "CalledProcessError"
                 ELSE IF env_name[c] \notin _get_envs(listing) THEN "create"
                 ELSE "post_init"]
    /\ hist' = [op |-> "get_envs", h |-> c, ran |-> <<"list">>,
                raised |-> exit # 0]
    /\ snap' = NoSnap
    /\ UNCHANGED <<arg, lists, env_name, self_env, listing, PATH, sys_path,
                   scope>>

\* Line 127 and the test of line 129: "env list" (which may exit non-zero),
\* then the branch on env_name not in envs.
inject_env_get_envs(c, exit) ==
    /\ pc[c] = "get_envs"
    /\ cmds' = [cmds EXCEPT ![c] = Append(@, "list")]
    /\ pc' = [pc EXCEPT ![c] =
                 IF exit # 0 THEN "CalledProcessError"
                 ELSE IF env_name[c] \notin _get_envs(listing) THEN "create"
                 ELSE "post_init"]
    /\ hist' = [op |-> "get_envs", h |-> c, ran |-> <<"list">>,
                raised |-> exit # 0]
    /\ snap' = NoSnap
    /\ UNCHANGED <<arg, lists, env_name, self_env, listing, PATH, sys_path,
                   scope>>

\* Lines 130-133, _create_env: "env create --name env_name"; on exit 0 the
\* manager has the environment.
inject_env_create(c, exit) ==
    /\ pc[c] = "create"
    /\ cmds' = [cmds EXCEPT ![c] = Append(@, "create")]
    /\ listing' = IF exit = 0 THEN listing \cup {env_path(env_name[c])}
                  ELSE listing
    /\ pc' = [pc EXCEPT ![c] = IF exit = 0 THEN "post_init"
                               ELSE "CalledProcessError"]
    /\ hist' = [op |-> "create", h |-> c, ran |-> <<"create">>,
                raised |-> exit # 0]
    /\ snap' = NoSnap
    /\ UNCHANGED <<arg, lists, env_name, self_env, PATH, sys_path, scope>>

(***************************************************************************)
(* InjectedEnvironment                                                     *)
(***************************************************************************)
\* PATH after _inject_path of an environment at path
_inject_path_PATH(path) == PATH \o <<":">> \o path \o <<"/bin">>

\* sys.path after _inject_path of an environment at path
_inject_path_sys_path(path) ==
    Append(sys_path, path \o <<"/lib/pythonX.Y/site-packages">>)

\* Line 135, InjectedEnvironment(...): __post_init__ lists the environments
\* again, looks its own up by name (KeyError when it is not listed) and
\* injects the paths.
__post_init__(c, exit) ==
    /\ pc[c] = "post_init"
    /\ cmds' = [cmds EXCEPT ![c] = Append(@, "list")]
    /\ IF exit = 0 /\ env_name[c] \in _get_envs(listing)
       THEN /\ self_env' = [self_env EXCEPT ![c] = env_path(env_name[c])]
            /\ sys_path' = _inject_path_sys_path(env_path(env_name[c]))
            /\ PATH' = _inject_path_PATH(env_path(env_name[c]))
            /\ snap' = [PATH |-> PATH, sys_path |-> sys_path]
            /\ pc' = [pc EXCEPT ![c] = "done"]
       ELSE /\ pc' = [pc EXCEPT ![c] = IF exit # 0 THEN "CalledProcessError"
                                       ELSE "KeyError"]
            /\ snap' = NoSnap
            /\ UNCHANGED <<self_env, sys_path, PATH>>
    /\ hist' = [op |-> "__post_init__", h |-> c, ran |-> <<"list">>,
                raised |-> pc'[c] \in Raised]
    /\ UNCHANGED <<arg, lists, env_name, listing, scope>>

\* deactivate with sys.path.pop() for line 59: the last entry goes,
\* whose ever it is.
deactivate_sys_path_pop(h) == SubSeq(sys_path, 1, Len(sys_path) - 1)

\* sys.path after deactivate of handle h
deactivate_sys_path(h) == list_remove(sys_path, _get_syspath_injection(h))

\* PATH after deactivate of handle h
deactivate_PATH(h) == replace(PATH, _get_path_injection(h))

\* InjectedEnvironment.deactivate
deactivate(h) ==
    /\ pc[h] = "done"
    /\ sys_path' = deactivate_sys_path(h)
    /\ PATH' = deactivate_PATH(h)
    /\ hist' = [op |-> "deactivate", h |-> h, ran |-> <<>>, raised |-> FALSE]
    /\ snap' = IF hist.op = "__post_init__" /\ hist.h = h THEN snap ELSE NoSnap
    /\ UNCHANGED <<pc, arg, lists, env_name, self_env, cmds, listing, scope>>

\* remove with line 54 in a finally: deactivate runs with either exit.
remove_finally(h, exit) ==
    /\ pc[h] = "done"
    /\ listing' = IF exit = 0
                  THEN {p \in listing : Environment_name(p) # env_name[h]}
                  ELSE listing
    /\ sys_path' = list_remove(sys_path, _get_syspath_injection(h))
    /\ PATH' = replace(PATH, _get_path_injection(h))
    /\ hist' = [op |-> "remove", h |-> h, ran |-> <<"remove">>,
                raised |-> exit # 0]
    /\ snap' = NoSnap
    /\ UNCHANGED <<pc, arg, lists, env_name, self_env, cmds, scope>>

\* InjectedEnvironment.remove: "env remove -n name -y" with check=True, so
\* a non-zero exit raises CalledProcessError out of line 48 and line 54 is
\* not reached.
remove(h, exit) ==
    /\ pc[h] = "done"
    /\ IF exit = 0
       THEN /\ listing' = {p \in listing : Environment_name(p) # env_name[h]}
            /\ sys_path' = deactivate_sys_path(h)
            /\ PATH' = deactivate_PATH(h)
       ELSE UNCHANGED <<listing, sys_path, PATH>>
    /\ hist' = [op |-> "remove", h |-> h, ran |-> <<"remove">>,
                raised |-> exit # 0]
    /\ snap' = NoSnap
    /\ UNCHANGED <<pc, arg, lists, env_name, self_env, cmds, scope>>

\* InjectedEnvironment.__enter__: "with handle:" opens the block.
__enter__(h) ==
    /\ pc[h] = "done"
    /\ ~scope[h]
    /\ scope' = [scope EXCEPT ![h] = TRUE]
    /\ hist' = [op |-> "__enter__", h |-> h, ran |-> <<>>, raised |-> FALSE]
    /\ snap' = NoSnap
    /\ UNCHANGED <<pc, arg, lists, env_name, self_env, cmds, listing, PATH,
                   sys_path>>

\* __exit__ with remove() for line 69: the block's end removes the
\* environment (the command exits zero).
__exit__remove(h, error) ==
    /\ pc[h] = "done"
    /\ scope[h]
    /\ scope' = [scope EXCEPT ![h] = FALSE]
    /\ listing' = {p \in listing : Environment_name(p) # env_name[h]}
    /\ sys_path' = list_remove(sys_path, _get_syspath_injection(h))
    /\ PATH' = replace(PATH, _get_path_injection(h))
    /\ hist' = [op |-> "__exit__", h |-> h, ran |-> <<"remove">>,
                raised |-> error]
    /\ snap' = NoSnap
    /\ UNCHANGED <<pc, arg, lists, env_name, self_env, cmds>>

\* InjectedEnvironment.__exit__(*args): the block ends, by its last
\* statement (error = FALSE) or by an exception raised in it (error = TRUE),
\* which __exit__ lets through.
__exit__(h, error) ==
    /\ pc[h] = "done"
    /\ scope[h]
    /\ scope' = [scope EXCEPT ![h] = FALSE]
    /\ sys_path' = deactivate_sys_path(h)
    /\ PATH' = deactivate_PATH(h)
    /\ hist' = [op |-> "__exit__", h |-> h, ran |-> <<>>, raised |-> error]
    /\ snap' = NoSnap
    /\ UNCHANGED <<pc, arg, lists, env_name, self_env, cmds, listing>>

(***************************************************************************)
(* The program                                                             *)
(***************************************************************************)
ExitCodes == {0, 1}

Keys == {KeysInOrder}

Deps == {<<humanfriendly>>, <<requests>>}

Constraints == {None}

\* One thread: a call runs from entry to return before anything else does.
Next ==
    \E c \in Calls :
        \/ Turn(c) /\ inject_env(c, Keys, Deps, Constraints)
        \/ \E exit \in ExitCodes : inject_env_get_envs(c, exit)
        \/ \E exit \in ExitCodes : inject_env_create(c, exit)
        \/ \E exit \in ExitCodes : __post_init__(c, exit)
        \/ Quiet /\ deactivate(c)
        \/ Quiet /\ \E exit \in ExitCodes : remove(c, exit)
        \/ Quiet /\ __enter__(c)
        \/ Quiet /\ \E error \in BOOLEAN : __exit__(c, error)

Spec == Init /\ [][Next]_vars

\* "python=3", "python >=3", "python3 =3" and "=1", which has no package
\* name.
python_pinned == python \o <<"=", "3">>

python_least == python \o <<" ", ">", "=", "3">>

python3 == python \o <<"3", " ", "=", "3">>

malformed == <<"=", "1">>

KeysV == {KeysInOrder, <<"dependencies", "channels">>, <<"dependencies">>,
          <<"channels">>}

DepsV == {<<humanfriendly>>, <<requests>>, <<humanfriendly, python_pinned>>,
          <<python3>>, <<humanfriendly, malformed>>}

ConstraintsV == {None, List(<<requests>>), List(<<python_least>>),
                 List(<<malformed>>)}

\* Number of handles of the thread that passes dicts of every kind.
MaxCallsV == 1

\* One thread that calls inject_env and inject_packages, with dicts and
\* constraints of every kind, and keeps the handles.  It calls again after
\* a ValueError and ends at an error of the manager.
NextV ==
    \E c \in 1..MaxCallsV :
        \/ /\ Turn(c) /\ pc[c] \in {"idle", "ValueError"}
           /\ inject_env(c, KeysV, DepsV, ConstraintsV)
        \/ /\ Turn(c) /\ pc[c] \in {"idle", "ValueError"}
           /\ inject_packages(c, Deps, Constraints)
        \/ \E exit \in ExitCodes : inject_env_get_envs(c, exit)
        \/ \E exit \in ExitCodes : inject_env_create(c, exit)
        \/ \E exit \in ExitCodes : __post_init__(c, exit)

SpecV == Init /\ [][NextV]_vars

\* Callers that run inject_env at the same time (threads, or processes on
\* one manager): their steps interleave between the manager's commands.
NextC ==
    \E c \in Calls :
        \/ /\ pc[c] = "idle"
           /\ IF c = 1 THEN TRUE ELSE pc[c - 1] # "idle"
           /\ inject_env(c, Keys, Deps, Constraints)
        \/ \E exit \in ExitCodes : inject_env_get_envs(c, exit)
        \/ \E exit \in ExitCodes : inject_env_create(c, exit)
        \/ \E exit \in ExitCodes : __post_init__(c, exit)
        \/ \E exit \in ExitCodes : remove(c, exit)

SpecC == Init /\ [][NextC]_vars

(***************************************************************************)
(* Reading the paths                                                       *)
(***************************************************************************)
\* p[i..] cut at os.pathsep: the entries of a search path, in order.
RECURSIVE split_from(_, _)
split_from(p, i) ==
    LET seps == {j \in i..Len(p) : p[j] = ":"}
    IN  IF seps = {} THEN <<SubSeq(p, i, Len(p))>>
        ELSE <<SubSeq(p, i, Min(seps) - 1)>> \o split_from(p, Min(seps) + 1)

split(p) == split_from(p, 1)

\* How often x is in the list l.
count(l, x) == Cardinality({i \in 1..Len(l) : l[i] = x})

\* The list l without its entries x.
without(l, x) == LET keep(e) == e # x IN SelectSeq(l, keep)

\* The entry of PATH that handle h stands for.
bin(h) == self_env[h] \o <<"/bin">>

Handles == {h \in Calls : pc[h] = "done"}

(***************************************************************************)
(* C1                                                                      *)
(***************************************************************************)
\* C1: when a handle is injected and deactivated right after, PATH and
\* sys.path hold the same set of entries as before the injection, whatever
\* was injected before.
C1_RoundTrip ==
    (hist.op = "deactivate" /\ snap # NoSnap) =>
        /\ Range(split(PATH)) = Range(split(snap.PATH))
        /\ Range(sys_path) = Range(snap.sys_path)

(***************************************************************************)
(* C2                                                                      *)
(***************************************************************************)
\* C2: a deactivate of a handle that comes right after a deactivate of the
\* same handle raises nothing and leaves PATH and sys.path as they are.
C2_SecondDeactivate ==
    [][\A h \in Calls :
          (hist.op = "deactivate" /\ hist.h = h /\ deactivate(h)) =>
              /\ ~hist'.raised
              /\ PATH' = PATH
              /\ sys_path' = sys_path]_vars

(***************************************************************************)
(* C3                                                                      *)
(***************************************************************************)
\* C3: __enter__ changes nothing and yields a handle whose environment is
\* set; entered right after the construction, the handle's entries are in
\* PATH and sys.path.  __exit__, with or without an error of the block,
\* runs no command of the manager and leaves its listing alone, and after
\* it PATH holds no injection of the handle and sys.path one entry of the
\* handle less (if it held one).
C3_Scope ==
    [][\A h \in Calls :
          /\ __enter__(h) =>
                /\ self_env[h] = env_path(env_name[h])
                /\ PATH' = PATH /\ sys_path' = sys_path /\ listing' = listing
                /\ (hist.op = "__post_init__" /\ hist.h = h) =>
                       /\ bin(h) \in Range(split(PATH'))
                       /\ _get_syspath_injection(h) \in Range(sys_path')
          /\ \A error \in BOOLEAN :
                __exit__(h, error) =>
                    /\ hist'.ran = <<>>
                    /\ listing' = listing
                    /\ occurrences(PATH', _get_path_injection(h), 1) = {}
                    /\ count(sys_path', _get_syspath_injection(h)) =
                           IF count(sys_path, _get_syspath_injection(h)) = 0
                           THEN 0
                           ELSE count(sys_path, _get_syspath_injection(h)) - 1
                    /\ ~scope'[h]]_vars

\* A block was left by an error: the handle's entries are gone and its
\* environment is still listed.
C3_Witness ==
    /\ hist.op = "__exit__" /\ hist.raised
    /\ self_env[hist.h] \in listing
    /\ bin(hist.h) \notin Range(split(PATH))
    /\ _get_syspath_injection(hist.h) \notin Range(sys_path)

(***************************************************************************)
(* C4                                                                      *)
(***************************************************************************)
\* C4: a call that ended in the ValueError of the checks has run no command
\* of the manager, neither "list" nor "create", and has no step left.
C4_NoSubprocess ==
    \A c \in Calls :
        pc[c] = "ValueError" =>
            /\ cmds[c] = <<>>
            /\ \A exit \in ExitCodes :
                   /\ ~ENABLED inject_env_get_envs(c, exit)
                   /\ ~ENABLED inject_env_create(c, exit)
                   /\ ~ENABLED __post_init__(c, exit)

\* A call failed on a dict without "channels", before any command.
C4_Witness ==
    \E c \in Calls :
        /\ pc[c] = "ValueError"
        /\ arg[c].keys = <<"dependencies">>
        /\ arg[c].entry = <<humanfriendly>>
        /\ cmds[c] = <<>>

(***************************************************************************)
(* C5                                                                      *)
(***************************************************************************)
\* C5: with one thread, the step after "env list" is the create command
\* exactly when env_name is not listed, and the create command never runs
\* for a name the manager lists: an environment that was created and is
\* listed is not created again.
C5_CreateOnlyAbsent ==
    [][\A c \in Calls :
          /\ (pc[c] = "get_envs" /\ pc'[c] \in {"create", "post_init"}) =>
                (pc'[c] = "create" <=> env_name[c] \notin _get_envs(listing))
          /\ (\E exit \in ExitCodes : inject_env_create(c, exit)) =>
                env_name[c] \notin _get_envs(listing)]_vars

\* A second call got its handle without a create command, for the
\* environment the first call created.
C5_Witness ==
    \E c, d \in Calls :
        /\ c # d
        /\ pc[c] = "done" /\ pc[d] = "done"
        /\ env_name[c] = env_name[d]
        /\ cmds[c] = <<"list", "create", "list">>
        /\ cmds[d] = <<"list", "list">>

(***************************************************************************)
(* C6                                                                      *)
(***************************************************************************)
\* The package names of the specs of a list that have one.
names(specs) ==
    {package_group(specs[i]) :
         i \in {j \in 1..Len(specs) : package_spec_pattern_match(specs[j])}}

\* C6: a call whose dependencies name python or the package of one of its
\* constraints, with whatever version, or whose constraints name python,
\* ends in ValueError.
C6_Reserved ==
    \A c \in Calls :
        (/\ pc[c] # "idle"
         /\ \/ names(arg[c].entry) \cap
                   ({python} \cup names(arg[c].constraints.items)) # {}
            \/ python \in names(arg[c].constraints.items))
        => pc[c] = "ValueError"

\* "requests =2" as a dependency and as a constraint: rejected.
C6_Witness ==
    \E c \in Calls :
        /\ pc[c] = "ValueError"
        /\ arg[c].keys = KeysInOrder
        /\ arg[c].entry = <<requests>>
        /\ arg[c].constraints = List(<<requests>>)

(***************************************************************************)
(* C7                                                                      *)
(***************************************************************************)
\* After the step, PATH holds no injection of h and sys.path one entry of
\* h less (if it held one).
Removed(h) ==
    /\ occurrences(PATH', _get_path_injection(h), 1) = {}
    /\ count(sys_path', _get_syspath_injection(h)) =
           IF count(sys_path, _get_syspath_injection(h)) = 0 THEN 0
           ELSE count(sys_path, _get_syspath_injection(h)) - 1

\* C7 as claimed: remove runs the removal command, raises when it exits
\* non-zero, and with either exit the handle's entries are out of PATH and
\* sys.path when it ends.
C7_Original ==
    [][\A h \in Calls : \A exit \in ExitCodes :
          remove(h, exit) =>
              /\ hist'.ran = <<"remove">>
              /\ hist'.raised <=> exit # 0
              /\ Removed(h)]_vars

\* C7 amended: remove runs the removal command; when it exits zero the
\* environment is off the listing and the handle's entries are out of PATH
\* and sys.path; when it exits non-zero remove raises and PATH and sys.path
\* are as they were.
C7_Amended ==
    [][\A h \in Calls : \A exit \in ExitCodes :
          remove(h, exit) =>
              /\ hist'.ran = <<"remove">>
              /\ hist'.raised <=> exit # 0
              /\ exit = 0 => /\ Removed(h)
                             /\ env_name[h] \notin _get_envs(listing')
              /\ exit # 0 => /\ PATH' = PATH
                             /\ sys_path' = sys_path
                             /\ listing' = listing]_vars

\* remove raised and the handle's entries are still in PATH and sys.path.
C7_Witness ==
    /\ hist.op = "remove" /\ hist.raised
    /\ bin(hist.h) \in Range(split(PATH))
    /\ _get_syspath_injection(hist.h) \in Range(sys_path)

(***************************************************************************)
(* C8                                                                      *)
(***************************************************************************)
\* C8: an injection adds its entry behind the entries PATH and sys.path
\* hold, which stay; a deactivate of a handle leaves every entry that is
\* not of the handle's environment in place and in order, each time it
\* runs.
C8_Independent ==
    [][\A h \in Calls :
          /\ ((\E exit \in ExitCodes : __post_init__(h, exit)) /\ pc'[h] = "done") =>
                /\ split(PATH') = Append(split(PATH), bin(h)')
                /\ sys_path' = Append(sys_path, _get_syspath_injection(h)')
          /\ deactivate(h) =>
                /\ without(split(PATH'), bin(h)) = without(split(PATH), bin(h))
                /\ without(sys_path', _get_syspath_injection(h)) =
                       without(sys_path, _get_syspath_injection(h))]_vars

\* A handle was deactivated, its entry is gone, and the handle of another
\* environment keeps its entries.
C8_Witness ==
    /\ hist.op = "deactivate"
    /\ bin(hist.h) \notin Range(split(PATH))
    /\ \E b \in Handles :
           /\ env_name[b] # env_name[hist.h]
           /\ bin(b) \in Range(split(PATH))
           /\ _get_syspath_injection(b) \in Range(sys_path)

(***************************************************************************)
(* C9                                                                      *)
(***************************************************************************)
\* C9: of two calls with the same constraints and the same dict object, or
\* dicts of the same channels and dependencies, when one passed the checks
\* the other passes them too and computes the same env_name.
C9_SameName ==
    \A c, d \in Calls :
        (/\ c # d
         /\ pc[c] \notin {"idle", "ValueError"}
         /\ pc[d] # "idle"
         /\ arg[c].constraints = arg[d].constraints
         /\ \/ arg[c].ref = arg[d].ref
            \/ arg[c].entry = arg[d].entry)
        => (pc[d] # "ValueError" /\ env_name[d] = env_name[c])

(***************************************************************************)
(* C10                                                                     *)
(***************************************************************************)
\* C10: nothing holds a caller back between the listing and the creation
\* of another: while one caller that found the name absent stands before
\* its create command, another caller of the same name can list, finds the
\* name absent too and goes on to its own create command.
C10_NoLock ==
    \A c, d \in Calls :
        (/\ c # d
         /\ pc[c] = "create" /\ pc[d] = "get_envs"
         /\ env_name[c] = env_name[d]
         /\ env_name[d] \notin _get_envs(listing))
        => ENABLED (inject_env_get_envs(d, 0) /\ pc'[d] = "create")

\* Two callers ran the create command for one name with exit 0, the second
\* right now, and no handle exists yet that could have removed it: both
\* listed before either created.
C10_Witness ==
    \E c, d \in Calls :
        /\ c # d
        /\ env_name[c] = env_name[d]
        /\ cmds[c] = <<"list", "create">> /\ pc[c] = "post_init"
        /\ cmds[d] = <<"list", "create">> /\ pc[d] = "post_init"
        /\ hist.op = "create" /\ hist.h = d /\ ~hist.raised
        /\ Handles = {}

====
